---- MODULE Spec2Model ----
(***************************************************************************)
(* Lifecycle of the instrumented FastAPI service (app/main.py,             *)
(* app/telemetry.py, app/database.py, app/logging_config.py,               *)
(* app/config.py) and of its /api/users request paths                      *)
(* (app/routes/user_routes.py, app/repository/user_repository.py).         *)
(*                                                                         *)
(* The main flow is the import of app.main followed by the lifespan        *)
(* context manager; requests and the exporters' background tasks run       *)
(* concurrently with it.                                                   *)
(*                                                                         *)
(* Spec         the lifecycle with create-user requests                    *)
(* FairSpec     Spec with the scheduling of the main flow and the requests *)
(* SetupSpec    setup_telemetry and setup_logging called repeatedly        *)
(* SettingsSpec get_settings under a changing environment                  *)
(* RepoSpec     UserRepository.update and delete, one call at a time       *)
(* ApiSpec      concurrent requests to the /api/users routes               *)
(* WriteSpec    concurrent create, update and delete requests only         *)
(* UpdateSpec   update requests with every body, one after the other       *)
(* PoolSpec     the sessions of get_db and the engine's connection pool    *)
(***************************************************************************)
EXTENDS Integers, Sequences, FiniteSets, TLC

\* ------------------------------------------------------------------ bounds
\* How many times the setup entry point may be called in SetupSpec.
MaxSetupCalls == 2
\* How many requests are issued in one run.
MaxReqs == 1
\* How many timer ticks of the periodic metric reader are followed.
MaxTicks == 1
\* How many log records the harness of SetupSpec emits.
MaxEmits == 2
\* How many repeated calls of setup_logging are followed in SetupSpec.
MaxLoggingCalls == 1
\* How many requests to /api/users are followed in ApiSpec.
MaxApiReqs == 2
\* How many requests of PoolSpec have their handler raise.
MaxPoolErrors == 2
\* How many repository calls are followed in RepoSpec.
MaxRepoCalls == 2
\* How many calls of get_settings are followed in SettingsSpec.
MaxGets == 3
\* Requests that write to the users table concurrently.
MaxWriters == 2
\* How many update requests are sent in turn in UpdateSpec.
MaxUpdates == 1

\* --------------------------------------------------------------- constants
\* create_async_engine(pool_size=10, max_overflow=20).
PoolSize == 10
MaxOverflow == 20
Signals == {"trace", "metric", "log"}
\* The order in which shutdown_telemetry visits the global providers.
ShutdownOrder == <<"trace", "metric", "log">>
\* The API's default global provider (a proxy object without a shutdown hook).
Proxy == 0
NoSettings == [built |-> FALSE]
Emails == {"a@x", "b@x"}
\* None, and the mark of a field the request body does not contain.
Null == "null"
Unset == "unset"
\* The columns of users a request can write (models.py:16-18).
Fields == {"name", "email", "bio"}
\* The columns declared nullable=False among them.
NotNullFields == {"name", "email"}
\* Two rows of users; updated_at counts the UPDATEs the row has received
\* (the column takes a new timestamp on each, models.py:20-22).
User1 ==
    [id |-> 1, name |-> "n1", email |-> "a@x", bio |-> Null, updated_at |-> 0]
User2 ==
    [id |-> 2, name |-> "n2", email |-> "b@x", bio |-> "b1", updated_at |-> 0]
\* The users table as the process finds it: empty, or holding one user.
InitialStores == {{}, {User1}}

VARIABLES
    env,          \* the enable flags and the log level the environment gives
    collectorUp,  \* whether the collector endpoint is reachable in this run
    settings,     \* the lru_cache of get_settings: NoSettings or a Settings
    pc,           \* position of the main flow (import of app.main, lifespan)
    exc,          \* the step whose exception left the main flow, or "none"
    calls,        \* the steps of the main flow invoked so far, in order
    setupCalls,   \* number of setup_telemetry invocations so far
    created,      \* providers constructed: pairs <<signal, setup call>>
    registered,   \* the global provider of each signal: Proxy or a setup call
    handlers,     \* the root logger's handler list
    sysMetrics,   \* SystemMetricsInstrumentor().instrument() has run
    httpInstr,    \* FastAPIInstrumentor.instrument_app(app) has run
    dbInstr,      \* SQLAlchemyInstrumentor().instrument(engine=...) has run
    shut,         \* providers whose shutdown hook has been called, in call order
    enq,          \* records handed to each provider's batching processor
    sent,         \* records each provider's exporter has taken out of its batch
    console,      \* records written by the console handler
    emitted,      \* records logged through the root logger
    ticks,        \* timer ticks of the periodic metric reader so far
    disposed,     \* engine.dispose() has completed
    checkedOut,   \* connections of the engine's pool that sessions hold
    users,        \* the rows of the users table
    reqs          \* the requests: position, input and answer of each

vars == <<env, collectorUp, settings, pc, exc, calls, setupCalls, created,
          registered, handlers, sysMetrics, httpInstr, dbInstr, shut,
          enq, sent, console, emitted, ticks, disposed, checkedOut,
          users, reqs>>

telemetryVars == <<setupCalls, created, registered, handlers, sysMetrics>>
exportVars == <<enq, sent, console, emitted>>
storeVars == <<disposed, checkedOut, users, reqs>>
instrVars == <<httpInstr, dbInstr>>
runVars == <<env, collectorUp>>

\* The values of LOG_LEVEL that are followed: the default and the verbose one.
Levels == {"info", "debug"}
\* What the environment (and .env) gives for the settings that are followed.
Environments ==
    [trace : BOOLEAN, metric : BOOLEAN, log : BOOLEAN, level : Levels]
Providers == Signals \X (1..MaxSetupCalls)
ConsoleHandler == [kind |-> "console", prov |-> 0]
OtlpHandler(n) == [kind |-> "otlp", prov |-> n]

Range(f) == {f[i] : i \in DOMAIN f}

\* --------------------------------------------------------------- lifecycle
StartingPcs == {"import_database", "setup_logging", "get_settings",
                "instrument_fastapi", "setup_telemetry",
                "instrument_sqlalchemy"}
StoppingPcs == {"close_db", "shutdown_telemetry", "shutdown_metric",
                "shutdown_log"}

\* The lifecycle state the main flow is in at position p: Starting from the
\* import of app.main to the lifespan's yield, Running at the yield, Stopping
\* in the block after it, Stopped once that block has ended.
LifecycleOf(p) ==
    IF p = "start" THEN "Uninitialized"
    ELSE IF p \in StartingPcs THEN "Starting"
    ELSE IF p = "running" THEN "Running"
    ELSE IF p \in StoppingPcs THEN "Stopping"
    ELSE IF p = "done" THEN "Stopped"
    ELSE "Harness"

Lifecycle == LifecycleOf(pc)

\* The main flow runs until an exception leaves it.
Alive == exc = "none"

\* ------------------------------------------------------------------ config
\* Settings(): the fields are read from the environment as it is now.
NewSettings(e, caller) ==
    [built |-> TRUE, by |-> caller,
     trace |-> e.trace, metric |-> e.metric, log |-> e.log, level |-> e.level]

\* get_settings without its lru_cache: every call constructs Settings().
GetSettings_NoCache(cache, e, caller) == NewSettings(e, caller)

\* get_settings: the lru_cache constructs Settings() on the first call only.
GetSettings(cache, e, caller) ==
    IF cache.built THEN cache ELSE NewSettings(e, caller)

FlagOn(cfg, s) ==
    IF s = "trace" THEN cfg.trace
    ELSE IF s = "metric" THEN cfg.metric
    ELSE cfg.log

\* ----------------------------------------------------------------- logging
RECURSIVE FeedAll(_, _, _)
\* Logger.callHandlers: every handler of the root logger receives the record;
\* a bridging handler hands it to its own logger provider's batch processor,
\* which takes nothing once that provider has been shut down.
FeedAll(hs, q, down) ==
    IF hs = <<>> THEN q
    ELSE LET h == Head(hs)
             p == <<"log", h.prov>>
             q1 == IF h.kind = "otlp" /\ p \notin down
                   THEN [q EXCEPT ![p] = @ + 1]
                   ELSE q
         IN FeedAll(Tail(hs), q1, down)

ConsoleCount(hs) == Cardinality({i \in 1..Len(hs) : hs[i].kind = "console"})

\* The part of the state the telemetry and logging calls read and write,
\* threaded through the statements of one call.
Tel == [created |-> created, registered |-> registered, handlers |-> handlers,
        sysMetrics |-> sysMetrics, shut |-> shut, enq |-> enq, sent |-> sent,
        console |-> console, emitted |-> emitted, raised |-> FALSE]

SetTel(T) ==
    /\ created' = T.created
    /\ registered' = T.registered
    /\ handlers' = T.handlers
    /\ sysMetrics' = T.sysMetrics
    /\ shut' = T.shut
    /\ enq' = T.enq
    /\ sent' = T.sent
    /\ console' = T.console
    /\ emitted' = T.emitted

\* logger.info(...): one record through the root logger's handlers.
LogInfo(T) ==
    [T EXCEPT !.emitted = @ + 1,
              !.console = @ + ConsoleCount(T.handlers),
              !.enq = FeedAll(T.handlers, @, Range(T.shut))]

\* logger.debug(...): the record is created only if the root logger's level,
\* set by setup_logging from the log level setting, lets it pass.
LogDebug(T, cfg) == IF cfg.level = "debug" THEN LogInfo(T) ELSE T

\* setup_logging: the root logger's handlers are removed, a console handler
\* is added, and "Logging configured" is logged.
SetupLoggingOn(T) ==
    LogInfo([T EXCEPT !.handlers = <<ConsoleHandler>>])

\* ---------------------------------------------------------------- telemetry
\* trace.set_tracer_provider, metrics.set_meter_provider, set_logger_provider:
\* the first call sets the global; whether a later call overrides it is the
\* API's choice (override).
SetGlobal(reg, s, n, override) ==
    IF reg[s] = Proxy \/ override THEN [reg EXCEPT ![s] = n] ELSE reg

\* setup_telemetry, the tracing block.
TraceBlock(T, cfg, n, override) ==
    IF ~cfg.trace THEN T
    ELSE LogInfo([T EXCEPT
            !.created = @ \cup {<<"trace", n>>},
            !.registered = SetGlobal(@, "trace", n, override)])

\* The metrics block gated by the tracing flag.
MetricBlock_TracingFlag(T, cfg, n, override) ==
    IF ~cfg.trace THEN T
    ELSE LogInfo([T EXCEPT
            !.created = @ \cup {<<"metric", n>>},
            !.registered = SetGlobal(@, "metric", n, override),
            !.sysMetrics = TRUE])

\* setup_telemetry, the metrics block.
MetricBlock(T, cfg, n, override) ==
    IF ~cfg.metric THEN T
    ELSE LogInfo([T EXCEPT
            !.created = @ \cup {<<"metric", n>>},
            !.registered = SetGlobal(@, "metric", n, override),
            !.sysMetrics = TRUE])

\* The logging block without the bridging handler.
LogBlock_NoHandler(T, cfg, n, override) ==
    IF ~cfg.log THEN T
    ELSE LogInfo([T EXCEPT
            !.created = @ \cup {<<"log", n>>},
            !.registered = SetGlobal(@, "log", n, override)])

\* setup_telemetry, the logging block: the bridging handler is bound to the
\* provider constructed by this call and appended to the root logger.
LogBlock(T, cfg, n, override) ==
    IF ~cfg.log THEN T
    ELSE LogInfo([T EXCEPT
            !.created = @ \cup {<<"log", n>>},
            !.registered = SetGlobal(@, "log", n, override),
            !.handlers = Append(@, OtlpHandler(n))])

\* setup_telemetry(settings) as its n-th call. failAt names the block whose
\* exporter construction raises ("none": no block raises); the blocks before
\* it have taken effect, it and the blocks after it have not.
SetupTelemetryOn(T, cfg, n, failAt, override) ==
    LET t1 == IF failAt = "trace" THEN [T EXCEPT !.raised = TRUE]
              ELSE TraceBlock(T, cfg, n, override)
        t2 == IF t1.raised THEN t1
              ELSE IF failAt = "metric" THEN [t1 EXCEPT !.raised = TRUE]
              ELSE MetricBlock(t1, cfg, n, override)
        t3 == IF t2.raised THEN t2
              ELSE IF failAt = "log" THEN [t2 EXCEPT !.raised = TRUE]
              ELSE LogBlock(t2, cfg, n, override)
    IN t3

\* The blocks of setup_telemetry that can raise under cfg.
FailPoints(cfg) == {"none"} \cup {s \in Signals : FlagOn(cfg, s)}

\* ------------------------------------------------------------------ Init
\* The environments with the three signals enabled (the defaults).
AllEnabled == {e \in Environments : e.trace /\ e.metric /\ e.log}

\* The state of a process in which nothing of the application has run yet.
InitState ==
    /\ exc = "none"
    /\ calls = <<>>
    /\ setupCalls = 0
    /\ created = {}
    /\ registered = [s \in Signals |-> Proxy]
    /\ sysMetrics = FALSE
    /\ httpInstr = FALSE
    /\ dbInstr = FALSE
    /\ shut = <<>>
    /\ enq = [p \in Providers |-> 0]
    /\ sent = [p \in Providers |-> 0]
    /\ console = 0
    /\ emitted = 0
    /\ ticks = 0
    /\ disposed = FALSE
    /\ checkedOut = 0
    /\ reqs = [r \in 1..MaxReqs |-> [pc |-> "idle"]]

InitCommon ==
    /\ env \in Environments
    /\ collectorUp \in BOOLEAN
    /\ InitState

Init ==
    /\ InitCommon
    /\ settings = NoSettings
    /\ handlers = <<>>
    /\ users \in InitialStores
    /\ pc = "start"

\* ---------------------------------------------------------------- main flow
Call(step, ok) == [step |-> step, ok |-> ok]

\* NextStep with setup_telemetry moved behind the lifespan's yield.
NextStep_SetupAfterYield(step) ==
    CASE step = "start" -> "import_database"
      [] step = "import_database" -> "setup_logging"
      [] step = "setup_logging" -> "get_settings"
      [] step = "get_settings" -> "instrument_fastapi"
      [] step = "instrument_fastapi" -> "instrument_sqlalchemy"
      [] step = "instrument_sqlalchemy" -> "running"
      [] step = "running" -> "setup_telemetry"
      [] step = "setup_telemetry" -> "close_db"
      [] step = "close_db" -> "shutdown_telemetry"
      [] step = "shutdown_telemetry" -> "done"

\* NextStep with instrument_fastapi moved into the lifespan, behind
\* instrument_sqlalchemy.
NextStep_FastapiInLifespan(step) ==
    CASE step = "start" -> "import_database"
      [] step = "import_database" -> "setup_logging"
      [] step = "setup_logging" -> "get_settings"
      [] step = "get_settings" -> "setup_telemetry"
      [] step = "setup_telemetry" -> "instrument_sqlalchemy"
      [] step = "instrument_sqlalchemy" -> "instrument_fastapi"
      [] step = "instrument_fastapi" -> "running"
      [] step = "running" -> "close_db"
      [] step = "close_db" -> "shutdown_telemetry"
      [] step = "shutdown_telemetry" -> "done"

\* The statement that follows each step in app/main.py: the module body
\* (database import, setup_logging, get_settings, instrument_fastapi), then
\* the lifespan (setup_telemetry, instrument_sqlalchemy, yield, close_db,
\* shutdown_telemetry).
NextStep(step) ==
    CASE step = "start" -> "import_database"
      [] step = "import_database" -> "setup_logging"
      [] step = "setup_logging" -> "get_settings"
      [] step = "get_settings" -> "instrument_fastapi"
      [] step = "instrument_fastapi" -> "setup_telemetry"
      [] step = "setup_telemetry" -> "instrument_sqlalchemy"
      [] step = "instrument_sqlalchemy" -> "running"
      [] step = "running" -> "close_db"
      [] step = "close_db" -> "shutdown_telemetry"
      [] step = "shutdown_telemetry" -> "done"


\* Raise with the exception caught and dropped: the flow goes on.
Raise_Swallowed(step) ==
    /\ exc' = exc
    /\ calls' = Append(calls, [step |-> step, ok |-> FALSE])
    /\ pc' = NextStep(step)

\* Raise with the startup block of the lifespan wrapped in try / finally: an
\* exception of setup_telemetry or instrument_sqlalchemy is followed by the
\* shutdown block.
Raise_ThenShutdown(step) ==
    /\ calls' = Append(calls, Call(step, FALSE))
    /\ IF step \in {"setup_telemetry", "instrument_sqlalchemy"}
       THEN exc' = exc /\ pc' = "close_db"
       ELSE exc' = step /\ pc' = pc

\* An exception leaves the step: neither app/main.py nor the lifespan catches
\* it, so it leaves the main flow, which ends there.
Raise(step) ==
    /\ exc' = step
    /\ calls' = Append(calls, Call(step, FALSE))
    /\ UNCHANGED pc

\* The step returns and the main flow goes on with the statement after it.
Return(step) ==
    /\ exc' = exc
    /\ calls' = Append(calls, Call(step, TRUE))
    /\ pc' = NextStep(step)

\* The process is started: python begins to import app.main.
ProcessStart ==
    /\ pc = "start" /\ Alive
    /\ pc' = NextStep("start")
    /\ UNCHANGED <<runVars, settings, exc, calls, telemetryVars, instrVars,
                   shut, exportVars, ticks, storeVars>>

\* main.py:12 imports app.database, whose module body resolves the settings
\* and creates the engine.
ImportDatabase ==
    /\ pc = "import_database" /\ Alive
    /\ \E fail \in BOOLEAN :
         IF fail
         THEN Raise("import_database") /\ UNCHANGED settings
         ELSE /\ settings' = GetSettings(settings, env, "import_database")
              /\ Return("import_database")
    /\ UNCHANGED <<runVars, telemetryVars, instrVars, shut, exportVars, ticks,
                   storeVars>>

\* main.py:23 setup_logging().
SetupLogging ==
    /\ pc = "setup_logging" /\ Alive
    /\ \E fail \in BOOLEAN :
         IF fail
         THEN /\ Raise("setup_logging")
              /\ UNCHANGED <<settings, telemetryVars, shut, exportVars>>
         ELSE /\ settings' = GetSettings(settings, env, "setup_logging")
              /\ SetTel(SetupLoggingOn(Tel))
              /\ UNCHANGED setupCalls
              /\ Return("setup_logging")
    /\ UNCHANGED <<runVars, instrVars, ticks, storeVars>>

\* main.py:26 settings = get_settings().
GetSettingsMain ==
    /\ pc = "get_settings" /\ Alive
    /\ settings' = GetSettings(settings, env, "get_settings")
    /\ Return("get_settings")
    /\ UNCHANGED <<runVars, telemetryVars, instrVars, shut, exportVars, ticks,
                   storeVars>>

\* main.py:49-83: the app is created, instrument_fastapi(app) wraps it, the
\* routers are included and "Application initialized" is logged.
InstrumentFastapi ==
    /\ pc = "instrument_fastapi" /\ Alive
    /\ \E fail \in BOOLEAN :
         IF fail
         THEN /\ Raise("instrument_fastapi")
              /\ UNCHANGED <<telemetryVars, httpInstr, shut, exportVars>>
         ELSE /\ httpInstr' = TRUE
              /\ SetTel(LogInfo(LogInfo(Tel)))
              /\ UNCHANGED setupCalls
              /\ Return("instrument_fastapi")
    /\ UNCHANGED <<runVars, settings, dbInstr, ticks, storeVars>>

\* main.py:33-34: the server enters the lifespan, which logs "Starting
\* application" and calls setup_telemetry(settings).
SetupTelemetry ==
    /\ pc = "setup_telemetry" /\ Alive
    /\ \E failAt \in FailPoints(settings), override \in BOOLEAN :
         \E T \in {SetupTelemetryOn(LogInfo(Tel), settings, setupCalls + 1,
                                    failAt, override)} :
            /\ SetTel(T)
            /\ setupCalls' = setupCalls + 1
            /\ IF T.raised
               THEN Raise("setup_telemetry")
               ELSE Return("setup_telemetry")
    /\ UNCHANGED <<runVars, settings, instrVars, ticks, storeVars>>

\* main.py:36-39: instrument_sqlalchemy(engine.sync_engine), "OpenTelemetry
\* instrumentation initialized", then the lifespan yields.
InstrumentSqlalchemy ==
    /\ pc = "instrument_sqlalchemy" /\ Alive
    /\ \E fail \in BOOLEAN :
         IF fail
         THEN /\ Raise("instrument_sqlalchemy")
              /\ UNCHANGED <<telemetryVars, dbInstr, shut, exportVars>>
         ELSE /\ dbInstr' = TRUE
              /\ SetTel(LogInfo(LogInfo(Tel)))
              /\ UNCHANGED setupCalls
              /\ Return("instrument_sqlalchemy")
    /\ UNCHANGED <<runVars, settings, httpInstr, ticks, storeVars>>

\* The stop signal: the server resumes the lifespan after its yield
\* (main.py:42 "Shutting down application").
StopSignal ==
    /\ pc = "running" /\ Alive
    /\ SetTel(LogInfo(Tel))
    /\ pc' = NextStep("running")
    /\ UNCHANGED <<runVars, settings, exc, calls, setupCalls, instrVars, ticks,
                   storeVars>>

\* main.py:43 await close_db(): engine.dispose(), "Database connections
\* closed". Nothing in close_db looks at the sessions that are checked out.
CloseDb ==
    /\ pc = "close_db" /\ Alive
    /\ disposed' = TRUE
    /\ SetTel(LogInfo(Tel))
    /\ Return("close_db")
    /\ UNCHANGED <<runVars, settings, setupCalls, instrVars, ticks, checkedOut,
                   users, reqs>>

\* provider.shutdown(): the batch still pending is handed to the exporter
\* once.
Flush(T, p) == [T EXCEPT !.sent[p] = T.enq[p]]

\* The position of the main flow in front of each block of
\* shutdown_telemetry, and behind it.
BlockPc(s) ==
    CASE s = "trace" -> "shutdown_telemetry"
      [] s = "metric" -> "shutdown_metric"
      [] s = "log" -> "shutdown_log"

BlockAfter(s) ==
    CASE s = ShutdownOrder[1] -> BlockPc(ShutdownOrder[2])
      [] s = ShutdownOrder[2] -> BlockPc(ShutdownOrder[3])
      [] s = ShutdownOrder[3] -> NextStep("shutdown_telemetry")

\* One of the three blocks of shutdown_telemetry: the global provider of
\* signal s is fetched; if it has a shutdown hook the hook is called and the
\* shutdown is logged. The default proxy provider has no such hook. A hook
\* that raises (fault) is not caught by shutdown_telemetry.
ShutdownBlockOn(T, s, fault) ==
    IF T.registered[s] = Proxy THEN T
    ELSE LET p == <<s, T.registered[s]>>
             called == [T EXCEPT !.shut = Append(@, p)]
         IN IF fault
            THEN [called EXCEPT !.raised = TRUE]
            ELSE LogInfo(Flush(called, p))

\* main.py:44-45: shutdown_telemetry(), block by block in ShutdownOrder, then
\* "Application shutdown complete".
ShutdownBlock(s) ==
    /\ pc = BlockPc(s) /\ Alive
    /\ \E fault \in BOOLEAN :
         \E T \in {ShutdownBlockOn(Tel, s, fault)} :
            IF T.raised
            THEN SetTel(T) /\ Raise("shutdown_telemetry")
            ELSE IF BlockAfter(s) = NextStep("shutdown_telemetry")
            THEN SetTel(LogInfo(T)) /\ Return("shutdown_telemetry")
            ELSE /\ SetTel(T)
                 /\ pc' = BlockAfter(s)
                 /\ UNCHANGED <<exc, calls>>
    /\ UNCHANGED <<runVars, settings, setupCalls, instrVars, ticks, storeVars>>

\* ------------------------------------------------------- background export
\* The batch processor of a span or log provider hands its pending batch to
\* the exporter on its own schedule; a failed export is dropped there and
\* reaches no caller.
ExportBatch(p) ==
    /\ Alive
    /\ p \in created /\ p[1] # "metric"
    /\ p \notin Range(shut)
    /\ enq[p] > sent[p]
    /\ sent' = [sent EXCEPT ![p] = enq[p]]
    /\ UNCHANGED <<runVars, settings, pc, exc, calls, telemetryVars, instrVars,
                   shut, enq, console, emitted, ticks, storeVars>>

\* The periodic reader of a meter provider collects and exports on its timer.
MetricTick(p) ==
    /\ Alive
    /\ p \in created /\ p[1] = "metric"
    /\ p \notin Range(shut)
    /\ ticks < MaxTicks
    /\ ticks' = ticks + 1
    /\ enq' = [enq EXCEPT ![p] = @ + 1]
    /\ sent' = [sent EXCEPT ![p] = @ + 1]
    /\ UNCHANGED <<runVars, settings, pc, exc, calls, telemetryVars, instrVars,
                   shut, console, emitted, storeVars>>

\* ----------------------------------------------------------------- requests
HeldBy(rows, e) == {u \in rows : u.email = e}

NextId(rows) ==
    IF rows = {} THEN 1
    ELSE 1 + CHOOSE m \in {u.id : u \in rows} : \A u \in rows : u.id <= m

\* The body of a POST /api/users for email e (UserCreate: name, email, and
\* bio, None when omitted).
CreateData(e) == [name |-> "n1", email |-> e, bio |-> Null]

\* User(**user_data.model_dump()) as the store inserts it: the id is the
\* table's next autoincrement value.
NewRow(rows, data) ==
    [id |-> NextId(rows), name |-> data.name, email |-> data.email,
     bio |-> data.bio, updated_at |-> 0]

\* The spans a finished request leaves: the HTTP attacher's root span, and a
\* child span per query when the engine is instrumented; they go to the global
\* tracer provider, and nowhere while that is the proxy or has been shut down.
SpansOf(T, queries) ==
    LET p == <<"trace", T.registered["trace"]>>
    IN IF ~httpInstr \/ T.registered["trace"] = Proxy \/ p \in Range(T.shut)
       THEN T
       ELSE [T EXCEPT !.enq[p] = @ + 1 + (IF dbInstr THEN queries ELSE 0)]

\* create_user with the span export done inside the request, its failure
\* reaching the handler.
CreateStatus_ExportRaises(found, clash, poolOk) ==
    IF ~poolOk \/ ~collectorUp THEN 500
    ELSE IF found # {} THEN 409
    ELSE IF clash # {} THEN 500
    ELSE 201

\* The answer of create_user for a request whose get_by_email found `found`
\* rows and whose INSERT met `clash` rows holding the email; poolOk says that
\* the session's connection worked.
CreateStatus(found, clash, poolOk) ==
    IF ~poolOk THEN 500
    ELSE IF found # {} THEN 409
    ELSE IF clash # {} THEN 500
    ELSE 201

\* A finished request: its answer, and what its queries met.
Answer(e, found, clash, poolOk) ==
    [pc |-> "done", email |-> e,
     status |-> CreateStatus(found, clash, poolOk),
     found |-> found # {}, clash |-> clash # {}, poolOk |-> poolOk,
     disposed |-> disposed]

\* What the connection of a session does: it works while the engine's pool
\* is in place; once the pool has been disposed the outcome is the driver's.
PoolOutcomes == IF disposed THEN BOOLEAN ELSE {TRUE}

\* ReqBegin with the server accepting requests as soon as app.main is being
\* imported, without waiting for the lifespan's startup block.
ReqBegin_BeforeStartup(r, e) ==
    /\ pc \in StartingPcs \cup {"running"} /\ Alive
    /\ reqs[r].pc = "idle"
    /\ \A q \in 1..(r - 1) : reqs[q].pc # "idle"
    /\ checkedOut < PoolSize + MaxOverflow
    /\ checkedOut' = checkedOut + 1
    /\ reqs' = [reqs EXCEPT ![r] = [pc |-> "check", email |-> e]]
    /\ UNCHANGED <<runVars, settings, pc, exc, calls, telemetryVars, instrVars,
                   shut, exportVars, ticks, disposed, users>>

\* POST /api/users arrives while the service is running: get_db opens a
\* session and create_user starts.
ReqBegin(r, e) ==
    /\ pc = "running" /\ Alive
    /\ reqs[r].pc = "idle"
    /\ \A q \in 1..(r - 1) : reqs[q].pc # "idle"
    /\ checkedOut < PoolSize + MaxOverflow
    /\ checkedOut' = checkedOut + 1
    /\ reqs' = [reqs EXCEPT ![r] = [pc |-> "check", email |-> e]]
    /\ UNCHANGED <<runVars, settings, pc, exc, calls, telemetryVars, instrVars,
                   shut, exportVars, ticks, disposed, users>>

\* user_routes.py:36-42: await repository.get_by_email(...); an existing
\* holder answers 409. The exception of an answer other than 201 passes
\* through get_db, which logs it as an error (database.py:46-49).
ReqCheck(r) ==
    /\ reqs[r].pc = "check"
    /\ \E poolOk \in PoolOutcomes :
         LET e == reqs[r].email
             found == HeldBy(users, e)
         IN IF CreateStatus(found, {}, poolOk) = 201
            THEN /\ reqs' = [reqs EXCEPT ![r] = [pc |-> "commit", email |-> e]]
                 /\ UNCHANGED <<telemetryVars, shut, exportVars, checkedOut>>
            ELSE /\ reqs' = [reqs EXCEPT ![r] = Answer(e, found, {}, poolOk)]
                 /\ checkedOut' = checkedOut - 1
                 /\ SetTel(SpansOf(LogInfo(Tel), 1))
                 /\ UNCHANGED setupCalls
    /\ UNCHANGED <<runVars, settings, pc, exc, calls, instrVars, ticks,
                   disposed, users>>

\* user_routes.py:44 and user_repository.py:35-40: the row is added and
\* committed (the unique index on email refuses a second holder), refreshed,
\* "Created user" is logged, and 201 is answered.
ReqCommit(r) ==
    /\ reqs[r].pc = "commit"
    /\ \E poolOk \in PoolOutcomes :
         LET e == reqs[r].email
             clash == HeldBy(users, e)
         IN /\ reqs' = [reqs EXCEPT ![r] = Answer(e, {}, clash, poolOk)]
            /\ checkedOut' = checkedOut - 1
            /\ IF CreateStatus({}, clash, poolOk) = 201
               THEN /\ users' = users \cup {NewRow(users, CreateData(e))}
                    /\ SetTel(SpansOf(LogInfo(Tel), 2))
               ELSE /\ users' = users
                    /\ SetTel(SpansOf(LogInfo(Tel), 2))
            /\ UNCHANGED setupCalls
    /\ UNCHANGED <<runVars, settings, pc, exc, calls, instrVars, ticks, disposed>>

\* ------------------------------------------------------------ specification
MainNext ==
    \/ ProcessStart
    \/ ImportDatabase
    \/ SetupLogging
    \/ GetSettingsMain
    \/ InstrumentFastapi
    \/ SetupTelemetry
    \/ InstrumentSqlalchemy
    \/ StopSignal
    \/ CloseDb
    \/ \E s \in Signals : ShutdownBlock(s)

Background ==
    \E p \in Providers : ExportBatch(p) \/ MetricTick(p)

Requests ==
    \E r \in 1..MaxReqs :
        \/ \E e \in Emails : ReqBegin(r, e)
        \/ ReqCheck(r)
        \/ ReqCommit(r)

Next == MainNext \/ Background \/ Requests

Spec == Init /\ [][Next]_vars

\* The main flow is a running Python process and the requests are tasks of
\* its event loop: a step that can be taken is taken.
FairSpec ==
    /\ Spec
    /\ WF_vars(MainNext)
    /\ WF_vars(Requests)

\* ------------------------------------------- the setup entry point, repeated
\* setup_telemetry called again in one process (every entry of the lifespan
\* calls it), after setup_logging has run once.
SetupInit ==
    /\ InitCommon
    /\ settings = GetSettings(NoSettings, env, "import_database")
    /\ handlers = <<ConsoleHandler>>
    /\ users = {}
    /\ pc = "setup"

CallSetupTelemetry ==
    /\ pc = "setup" /\ Alive
    /\ setupCalls < MaxSetupCalls
    /\ \E failAt \in FailPoints(settings), override \in BOOLEAN :
         \E T \in {SetupTelemetryOn(Tel, settings, setupCalls + 1, failAt,
                                    override)} :
            /\ SetTel(T)
            /\ setupCalls' = setupCalls + 1
            /\ exc' = IF T.raised THEN "setup_telemetry" ELSE exc
            /\ calls' = Append(calls, Call("setup_telemetry", ~T.raised))
    /\ UNCHANGED <<runVars, settings, pc, instrVars, ticks, storeVars>>

Emits == Cardinality({i \in 1..Len(calls) : calls[i].step = "emit"})

\* Some module logs one record through the root logger.
EmitRecord ==
    /\ pc = "setup" /\ Alive
    /\ Emits < MaxEmits
    /\ SetTel(LogInfo(Tel))
    /\ calls' = Append(calls, Call("emit", TRUE))
    /\ UNCHANGED <<runVars, settings, pc, exc, setupCalls, instrVars, ticks,
                   storeVars>>

LoggingCalls ==
    Cardinality({i \in 1..Len(calls) : calls[i].step = "setup_logging"})

\* setup_logging() called again in the same process.
CallSetupLogging ==
    /\ pc = "setup" /\ Alive
    /\ LoggingCalls < MaxLoggingCalls
    /\ SetTel(SetupLoggingOn(Tel))
    /\ calls' = Append(calls, Call("setup_logging", TRUE))
    /\ UNCHANGED <<runVars, settings, pc, exc, setupCalls, instrVars, ticks,
                   storeVars>>

SetupNext ==
    CallSetupTelemetry \/ CallSetupLogging \/ EmitRecord \/ Background

SetupSpec == SetupInit /\ [][SetupNext]_vars

\* ------------------------------------------------ the settings entry point
\* get_settings called by its three callers (app.database, setup_logging,
\* app.main) in any order, while the environment of the process changes.
Callers == {"import_database", "setup_logging", "get_settings"}

SettingsInit ==
    /\ InitCommon
    /\ settings = NoSettings
    /\ handlers = <<>>
    /\ users = {}
    /\ pc = "config"

\* One call of get_settings(); the call and the object it returned are
\* recorded.
CallGetSettings(caller) ==
    /\ pc = "config" /\ Alive
    /\ Len(calls) < MaxGets
    /\ settings' = GetSettings(settings, env, caller)
    /\ calls' = Append(calls, [step |-> caller, ok |-> TRUE, got |-> settings'])
    /\ UNCHANGED <<runVars, pc, exc, telemetryVars, instrVars, shut, exportVars,
                   ticks, storeVars>>

\* os.environ (or .env) is changed while the process runs.
ChangeEnv(e) ==
    /\ pc = "config" /\ Alive
    /\ e # env
    /\ env' = e
    /\ UNCHANGED <<collectorUp, settings, pc, exc, calls, telemetryVars,
                   instrVars, shut, exportVars, ticks, storeVars>>

SettingsNext ==
    \/ \E caller \in Callers : CallGetSettings(caller)
    \/ \E e \in Environments : ChangeEnv(e)

SettingsSpec == SettingsInit /\ [][SettingsNext]_vars

\* --------------------------------------------------------------- repository
\* model_dump(exclude_unset=True): the fields the request body contains.
Supplied(data) == {f \in Fields : data[f] # Unset}

\* get_by_id: the rows with that id (at most one).
ById(rows, id) == {u \in rows : u.id = id}

\* The None a query for one user returns when no row matches.
NoUser == [id |-> 0]

\* result.scalar_one_or_none() of get_by_id: the row, or None.
Load(rows, id) ==
    IF ById(rows, id) = {} THEN NoUser ELSE CHOOSE u \in ById(rows, id) : TRUE

\* user_repository.py:85-87 with setattr applied to every field of the model,
\* the omitted ones being set to None.
SetAttrs_AllFields(user, data) ==
    [f \in DOMAIN user |->
        IF f \in Supplied(data) THEN data[f]
        ELSE IF f \in Fields THEN Null ELSE user[f]]

\* user_repository.py:85-87 with a field given as None treated as omitted
\* (`if value is not None: setattr(...)`).
SetAttrs_SkipNull(user, data) ==
    [f \in DOMAIN user |->
        IF f \in Supplied(data) /\ data[f] # Null THEN data[f] ELSE user[f]]

\* user_repository.py:85-87: setattr(user, field, value) for every supplied
\* field, on the object get_by_id loaded.
SetAttrs(user, data) ==
    [f \in DOMAIN user |-> IF f \in Supplied(data) THEN data[f] ELSE user[f]]

\* The attributes of the object whose value differs from the loaded one: the
\* columns the flush of the commit writes.
Dirty(seen, obj) == {f \in Fields : obj[f] # seen[f]}

\* The commit of an update raises: the row is gone, a NOT NULL column would
\* become NULL, or the unique index on email holds the value for another row.
UpdateRefused(rows, seen, obj) ==
    \/ ById(rows, seen.id) = {}
    \/ \E f \in Dirty(seen, obj) \cap NotNullFields : obj[f] = Null
    \/ /\ "email" \in Dirty(seen, obj)
       /\ \E u \in rows : u.id # seen.id /\ u.email = obj.email

\* The rows after the UPDATE of the dirty columns of the row with seen's id,
\* which also advances updated_at; without a dirty column no UPDATE is
\* issued.
UpdateWrite(rows, seen, obj) ==
    LET cur == Load(rows, seen.id)
        new == [f \in DOMAIN cur |->
                   IF f \in Dirty(seen, obj) THEN obj[f]
                   ELSE IF f = "updated_at" /\ Dirty(seen, obj) # {}
                   THEN cur[f] + 1
                   ELSE cur[f]]
    IN (rows \ {cur}) \cup {new}

\* The rows after session.delete(user) and the commit.
DeleteWrite(rows, seen) == rows \ ById(rows, seen.id)

\* What one call of a repository method has done, for the caller to see.
Outcome(op, id, data, before, result, user, commits, refreshes, deletes) ==
    [pc |-> "done", op |-> op, id |-> id, data |-> data, before |-> before,
     result |-> result, user |-> user, commits |-> commits,
     refreshes |-> refreshes, deletes |-> deletes]

\* UserRepository.update with the not-found guard dropped for an id the table
\* does not hold: the commit is still issued.
UpdateOn_NoGuard(rows, id, data) ==
    LET seen == Load(rows, id)
    IN IF seen = NoUser
       THEN [rows |-> rows, result |-> "none", user |-> NoUser,
             commits |-> 1, refreshes |-> 0]
       ELSE LET obj == SetAttrs(seen, data)
            IN IF UpdateRefused(rows, seen, obj)
               THEN [rows |-> rows, result |-> "raised", user |-> obj,
                     commits |-> 1, refreshes |-> 0]
               ELSE [rows |-> UpdateWrite(rows, seen, obj),
                     result |-> "user",
                     user |-> Load(UpdateWrite(rows, seen, obj), id),
                     commits |-> 1, refreshes |-> 1]

\* UserRepository.update(user_id, user_data) run to its end in one session:
\* None for an unknown id; otherwise the setattr loop, the commit and, if the
\* commit is accepted, the refresh.
UpdateOn(rows, id, data) ==
    LET seen == Load(rows, id)
    IN IF seen = NoUser
       THEN [rows |-> rows, result |-> "none", user |-> NoUser,
             commits |-> 0, refreshes |-> 0]
       ELSE LET obj == SetAttrs(seen, data)
            IN IF UpdateRefused(rows, seen, obj)
               THEN [rows |-> rows, result |-> "raised", user |-> obj,
                     commits |-> 1, refreshes |-> 0]
               ELSE [rows |-> UpdateWrite(rows, seen, obj),
                     result |-> "user",
                     user |-> Load(UpdateWrite(rows, seen, obj), id),
                     commits |-> 1, refreshes |-> 1]

\* UserRepository.delete(user_id) run to its end in one session.
DeleteOn(rows, id) ==
    LET seen == Load(rows, id)
    IN IF seen = NoUser
       THEN [rows |-> rows, result |-> "false", commits |-> 0, deletes |-> 0]
       ELSE [rows |-> DeleteWrite(rows, seen), result |-> "true",
             commits |-> 1, deletes |-> 1]

\* The bodies of PUT /api/users/{id} that are followed (UserUpdate: every
\* field may be omitted, or given as null).
UpdateBodies ==
    [name : {Unset, Null, "n2"}, email : {Unset, Null} \cup Emails,
     bio : {Unset, Null, "b2"}]
\* The ids requests name: the two the table may hold and one it never holds.
Ids == {1, 2, 3}
\* The users table with up to two users in it.
Stores == {{}, {User1}, {User2}, {User1, User2}}

\* The repository's methods called one after the other, each in a session of
\* its own, on a table of up to two users.
RepoInit ==
    /\ env \in AllEnabled
    /\ collectorUp = TRUE
    /\ InitState
    /\ settings = GetSettings(NoSettings, env, "import_database")
    /\ handlers = <<ConsoleHandler>>
    /\ users \in Stores
    /\ pc = "repository"

RepoCalls == Len(calls)

\* await repository.update(user_id, user_data): get_by_id logs at debug, then
\* a warning for an unknown id, "Updated user" after the refresh.
RepoUpdate(id, data) ==
    /\ pc = "repository" /\ Alive
    /\ RepoCalls < MaxRepoCalls
    /\ \E o \in {UpdateOn(users, id, data)} :
         /\ users' = o.rows
         /\ reqs' = [reqs EXCEPT ![1] =
                Outcome("update", id, data, users, o.result, o.user,
                        o.commits, o.refreshes, 0)]
         /\ calls' = Append(calls, Call("update", o.result # "raised"))
         /\ IF o.result = "raised"
            THEN SetTel(LogDebug(Tel, settings))
            ELSE SetTel(LogInfo(LogDebug(Tel, settings)))
    /\ UNCHANGED <<runVars, settings, pc, exc, setupCalls, instrVars, ticks,
                   disposed, checkedOut>>

\* await repository.delete(user_id): a warning for an unknown id, "Deleted
\* user" after the commit.
RepoDelete(id) ==
    /\ pc = "repository" /\ Alive
    /\ RepoCalls < MaxRepoCalls
    /\ \E o \in {DeleteOn(users, id)} :
         /\ users' = o.rows
         /\ reqs' = [reqs EXCEPT ![1] =
                Outcome("delete", id, Null, users, o.result, NoUser,
                        o.commits, 0, o.deletes)]
         /\ calls' = Append(calls, Call("delete", TRUE))
    /\ SetTel(LogInfo(LogDebug(Tel, settings)))
    /\ UNCHANGED <<runVars, settings, pc, exc, setupCalls, instrVars, ticks,
                   disposed, checkedOut>>

RepoNext ==
    \/ \E id \in Ids, data \in UpdateBodies : RepoUpdate(id, data)
    \/ \E id \in Ids : RepoDelete(id)

RepoSpec == RepoInit /\ [][RepoNext]_vars

\* ------------------------------------------------------- the /api/users routes
\* The state of a process in which nothing has run, as the telemetry and
\* logging calls see it.
FreshTel ==
    [created |-> {}, registered |-> [s \in Signals |-> Proxy],
     handlers |-> <<>>, sysMetrics |-> FALSE, shut |-> <<>>,
     enq |-> [p \in Providers |-> 0], sent |-> [p \in Providers |-> 0],
     console |-> 0, emitted |-> 0, raised |-> FALSE]

\* The same state after the import of app.main and the startup block of the
\* lifespan have run without a failure: setup_logging, instrument_fastapi and
\* "Application initialized", "Starting application", setup_telemetry,
\* instrument_sqlalchemy and its two records.
StartedTel(cfg) ==
    LogInfo(LogInfo(
        SetupTelemetryOn(
            LogInfo(LogInfo(LogInfo(SetupLoggingOn(FreshTel)))),
            cfg, 1, "none", FALSE)))

StartupHistory ==
    <<Call("import_database", TRUE), Call("setup_logging", TRUE),
      Call("get_settings", TRUE), Call("instrument_fastapi", TRUE),
      Call("setup_telemetry", TRUE), Call("instrument_sqlalchemy", TRUE)>>

\* A request body without any field.
NoBody == [name |-> Unset, email |-> Unset, bio |-> Unset]
\* The ids and the PUT bodies the concurrent requests use.
ApiIds == {1, 2}
ApiUpdateBodies ==
    {d \in UpdateBodies :
        d.bio = Unset /\ (d.name = Unset \/ d.email = Unset)}

\* The requests to /api/users that are followed.
ApiInputs ==
    {[kind |-> "create", id |-> 0, data |-> CreateData(e)] : e \in Emails}
    \cup {[kind |-> "update", id |-> i, data |-> d] :
              i \in ApiIds, d \in ApiUpdateBodies}
    \cup {[kind |-> k, id |-> i, data |-> NoBody] :
              k \in {"get", "delete"}, i \in ApiIds}
    \cup {[kind |-> "list", id |-> 0, data |-> NoBody]}

\* `if user_data.email:` (user_routes.py:101).
Truthy(v) == v # Unset /\ v # Null

\* The first await of each handler.
FirstStep(in) ==
    CASE in.kind = "create" -> "email_check"
      [] in.kind = "update" ->
            IF Truthy(in.data.email) THEN "email_check" ELSE "load"
      [] in.kind \in {"get", "delete"} -> "load"
      [] in.kind = "list" -> "list"

\* A request whose handler has just been entered with the session of get_db.
NewReq(in) ==
    [pc |-> FirstStep(in), kind |-> in.kind, id |-> in.id, data |-> in.data,
     status |-> 0, raised |-> FALSE, seen |-> NoUser, queries |-> 0,
     logs |-> 0, root |-> 0, child |-> 0, rolled |-> FALSE, closed |-> FALSE]

\* The handler has executed n more statements on its session.
Queried(q, n) == [q EXCEPT !.queries = @ + n]
\* The handler returns, to be answered st.
Answered(q, st) == [q EXCEPT !.pc = "exit", !.status = st]
\* The handler raises (an HTTPException of status st, or a store error,
\* answered 500): the exception is thrown into get_db at its yield.
Failed(q, st) == [q EXCEPT !.pc = "exit", !.status = st, !.raised = TRUE]
\* The records the request has logged between the states T0 and T1.
Logged(q, T0, T1) == [q EXCEPT !.logs = @ + (T1.emitted - T0.emitted)]

\* The service in Running after a startup without failure, the three signals
\* enabled, no request received yet.
Serving ==
    /\ env \in AllEnabled
    /\ collectorUp = TRUE
    /\ settings = GetSettings(NoSettings, env, "import_database")
    /\ pc = "running"
    /\ exc = "none"
    /\ calls = StartupHistory
    /\ setupCalls = 1
    /\ created = StartedTel(settings).created
    /\ registered = StartedTel(settings).registered
    /\ handlers = StartedTel(settings).handlers
    /\ sysMetrics = StartedTel(settings).sysMetrics
    /\ shut = StartedTel(settings).shut
    /\ enq = StartedTel(settings).enq
    /\ sent = StartedTel(settings).sent
    /\ console = StartedTel(settings).console
    /\ emitted = StartedTel(settings).emitted
    /\ httpInstr = TRUE
    /\ dbInstr = TRUE
    /\ ticks = 0
    /\ disposed = FALSE
    /\ checkedOut = 0

\* The serving process with the users table holding up to two users.
ApiInit ==
    /\ Serving
    /\ users \in Stores
    /\ reqs = [r \in 1..MaxApiReqs |-> [pc |-> "idle"]]

\* A request arrives: get_db opens its session and the handler is entered.
ApiArrive(r, in) ==
    /\ pc = "running" /\ Alive
    /\ reqs[r].pc = "idle"
    /\ \A q \in 1..(r - 1) : reqs[q].pc # "idle"
    /\ checkedOut < PoolSize + MaxOverflow
    /\ checkedOut' = checkedOut + 1
    /\ reqs' = [reqs EXCEPT ![r] = NewReq(in)]
    /\ UNCHANGED <<runVars, settings, pc, exc, calls, telemetryVars, instrVars,
                   shut, exportVars, ticks, disposed, users>>

\* await repository.get_by_email(user_data.email) and the check that follows:
\* create_user raises 409 for any holder (user_routes.py:37-42), update_user
\* for a holder with another id (user_routes.py:102-107).
ApiEmailCheck(r) ==
    /\ reqs[r].pc = "email_check"
    /\ LET q == Queried(reqs[r], 1)
           found == HeldBy(users, q.data.email)
           conflict == IF q.kind = "create" THEN found # {}
                       ELSE \E u \in found : u.id # q.id
       IN reqs' = [reqs EXCEPT ![r] =
              IF conflict THEN Failed(q, 409)
              ELSE [q EXCEPT !.pc = IF q.kind = "create" THEN "commit"
                                    ELSE "load"]]
    /\ UNCHANGED <<runVars, settings, pc, exc, calls, telemetryVars, instrVars,
                   shut, exportVars, ticks, disposed, checkedOut, users>>

\* await get_by_id(user_id), which logs at debug, and what get_user
\* (user_routes.py:75-83), UserRepository.update (user_repository.py:80-87)
\* and UserRepository.delete (user_repository.py:103-106) do with the result
\* up to their next await.
ApiLoad(r) ==
    /\ reqs[r].pc = "load"
    /\ LET q == Queried(reqs[r], 1)
           seen == Load(users, q.id)
           T1 == LogDebug(Tel, settings)
           T2 == IF seen = NoUser /\ q.kind # "get" THEN LogInfo(T1) ELSE T1
       IN /\ SetTel(T2)
          /\ reqs' = [reqs EXCEPT ![r] = Logged(
                 IF seen = NoUser THEN Failed(q, 404)
                 ELSE IF q.kind = "get" THEN Answered(q, 200)
                 ELSE [q EXCEPT !.pc = "commit", !.seen = seen],
                 Tel, T2)]
    /\ UNCHANGED <<runVars, settings, pc, exc, calls, setupCalls, instrVars,
                   ticks, disposed, checkedOut, users>>

\* get_users: await repository.get_all(), which logs at debug
\* (user_routes.py:57-61, user_repository.py:65-68).
ApiList(r) ==
    /\ reqs[r].pc = "list"
    /\ LET T1 == LogDebug(Tel, settings)
       IN /\ SetTel(T1)
          /\ reqs' = [reqs EXCEPT ![r] =
                 Logged(Answered(Queried(reqs[r], 1), 200), Tel, T1)]
    /\ UNCHANGED <<runVars, settings, pc, exc, calls, setupCalls, instrVars,
                   ticks, disposed, checkedOut, users>>

\* The commit on a users table whose email column has no unique index
\* (models.py:17 without unique=True): a create is always accepted, an update
\* is refused only for a row that is gone or a NOT NULL column set to NULL.
CommitRefused_NoUniqueIndex(rows, q) ==
    CASE q.kind = "create" -> FALSE
      [] q.kind = "update" ->
            \/ ById(rows, q.seen.id) = {}
            \/ \E f \in Dirty(q.seen, SetAttrs(q.seen, q.data)) \cap NotNullFields :
                   SetAttrs(q.seen, q.data)[f] = Null
      [] q.kind = "delete" -> FALSE

\* What the commit of request q does to the rows, and whether the store
\* refuses it.
CommitRefused(rows, q) ==
    CASE q.kind = "create" -> HeldBy(rows, q.data.email) # {}
      [] q.kind = "update" -> UpdateRefused(rows, q.seen, SetAttrs(q.seen, q.data))
      [] q.kind = "delete" -> FALSE

CommitWrite(rows, q) ==
    CASE q.kind = "create" -> rows \cup {NewRow(rows, q.data)}
      [] q.kind = "update" -> UpdateWrite(rows, q.seen, SetAttrs(q.seen, q.data))
      [] q.kind = "delete" -> DeleteWrite(rows, q.seen)

\* The statements an accepted commit executes: the INSERT, UPDATE (if a
\* column is dirty) or DELETE, and the SELECT of the refresh in create and
\* update.
CommitStatements(q) ==
    CASE q.kind = "create" -> 2
      [] q.kind = "update" ->
            IF Dirty(q.seen, SetAttrs(q.seen, q.data)) # {} THEN 2 ELSE 1
      [] q.kind = "delete" -> 1

\* The answer of a handler whose commit was accepted.
SuccessStatus(kind) ==
    CASE kind = "create" -> 201
      [] kind = "update" -> 200
      [] kind = "delete" -> 204

\* await session.commit() of create, update and delete, then the refresh and
\* the "Created / Updated / Deleted user" record; a commit the store refuses
\* raises out of the handler, which catches nothing.
ApiCommit(r) ==
    /\ reqs[r].pc = "commit"
    /\ LET q == reqs[r]
       IN IF CommitRefused(users, q)
          THEN /\ reqs' = [reqs EXCEPT ![r] = Failed(Queried(q, 1), 500)]
               /\ UNCHANGED <<users, telemetryVars, shut, exportVars>>
          ELSE /\ users' = CommitWrite(users, q)
               /\ SetTel(LogInfo(Tel))
               /\ UNCHANGED setupCalls
               /\ reqs' = [reqs EXCEPT ![r] =
                      Logged(Answered(Queried(q, CommitStatements(q)),
                                      SuccessStatus(q.kind)),
                             Tel, LogInfo(Tel))]
    /\ UNCHANGED <<runVars, settings, pc, exc, calls, instrVars, ticks,
                   disposed, checkedOut>>

\* get_db after its yield without `finally: await session.close()` on the
\* exception path.
GetDbExit_NoFinally(q, T) ==
    IF q.raised
    THEN [req |-> [q EXCEPT !.rolled = TRUE], tel |-> LogInfo(T),
          released |-> 0]
    ELSE [req |-> [q EXCEPT !.closed = TRUE], tel |-> T, released |-> 1]

\* get_db after its yield (database.py:46-51): an exception thrown in by the
\* handler is logged as an error, the session is rolled back and the
\* exception re-raised; in every case the session is closed, which returns
\* its connection to the pool.
GetDbExit(q, T) ==
    IF q.raised
    THEN [req |-> [q EXCEPT !.rolled = TRUE, !.closed = TRUE],
          tel |-> LogInfo(T), released |-> 1]
    ELSE [req |-> [q EXCEPT !.closed = TRUE], tel |-> T, released |-> 1]

\* The spans the tracer provider receives for one request: the root span of
\* the HTTP attacher and a child span per statement of the data-access
\* attacher.
RootSpans(T) ==
    IF httpInstr /\ T.registered["trace"] # Proxy
          /\ <<"trace", T.registered["trace"]>> \notin Range(T.shut)
    THEN 1 ELSE 0
ChildSpans(T, queries) ==
    IF RootSpans(T) = 1 /\ dbInstr THEN queries ELSE 0

\* The handler has ended: get_db finishes, the response is sent and the
\* request's spans end.
ApiExit(r) ==
    /\ reqs[r].pc = "exit"
    /\ \E x \in {GetDbExit(reqs[r], Tel)} :
         /\ SetTel(SpansOf(x.tel, x.req.queries))
         /\ checkedOut' = checkedOut - x.released
         /\ reqs' = [reqs EXCEPT ![r] =
                [Logged(x.req, Tel, x.tel) EXCEPT
                    !.pc = "done",
                    !.root = RootSpans(x.tel),
                    !.child = ChildSpans(x.tel, x.req.queries)]]
    /\ UNCHANGED <<runVars, settings, pc, exc, calls, setupCalls, instrVars,
                   ticks, disposed, users>>

ApiNext ==
    \E r \in 1..MaxApiReqs :
        \/ \E in \in ApiInputs : ApiArrive(r, in)
        \/ ApiEmailCheck(r)
        \/ ApiLoad(r)
        \/ ApiList(r)
        \/ ApiCommit(r)
        \/ ApiExit(r)

ApiSpec == ApiInit /\ [][ApiNext]_vars

\* ------------------------------------------------- concurrent writers
\* The requests that write the email column or remove a row: POST /api/users,
\* PUT /api/users/{id} with an email, DELETE /api/users/{id}.
WriteInputs ==
    {in \in ApiInputs :
        \/ in.kind \in {"create", "delete"}
        \/ in.kind = "update" /\ in.data.email \in Emails}

\* The serving process with MaxWriters requests still to arrive.
WriteInit ==
    /\ Serving
    /\ users \in Stores
    /\ reqs = [r \in 1..MaxWriters |-> [pc |-> "idle"]]

\* The handlers of these requests, interleaved at their awaits.
WriteNext ==
    \E r \in 1..MaxWriters :
        \/ \E in \in WriteInputs : ApiArrive(r, in)
        \/ ApiEmailCheck(r)
        \/ ApiLoad(r)
        \/ ApiCommit(r)
        \/ ApiExit(r)

WriteSpec == WriteInit /\ [][WriteNext]_vars

\* ------------------------------------------------- update requests in turn
\* PUT /api/users/{id} with every body UserUpdate accepts.
UpdateInputs ==
    {[kind |-> "update", id |-> i, data |-> d] :
        i \in ApiIds, d \in UpdateBodies}

\* The serving process with MaxUpdates update requests still to arrive.
UpdateInit ==
    /\ Serving
    /\ users \in Stores
    /\ reqs = [r \in 1..MaxUpdates |-> [pc |-> "idle"]]

\* The client sends its next update when the one before has been answered.
UpdateArrive(r, in) ==
    /\ \A q \in 1..(r - 1) : reqs[q].pc = "done"
    /\ ApiArrive(r, in)

UpdateNext ==
    \E r \in 1..MaxUpdates :
        \/ \E in \in UpdateInputs : UpdateArrive(r, in)
        \/ ApiEmailCheck(r)
        \/ ApiLoad(r)
        \/ ApiCommit(r)
        \/ ApiExit(r)

UpdateSpec == UpdateInit /\ [][UpdateNext]_vars

\* ------------------------------------------------- sessions and the pool
\* Any number of requests use get_db at once. They are told apart only by how
\* far they have come, so reqs counts them: in their handler, with an
\* exception thrown into get_db, with the handler returned; and keeps the
\* session of the request that finished last.
NoSession == [raised |-> FALSE, rolled |-> FALSE, closed |-> FALSE]

PoolInit ==
    /\ Serving
    /\ users = {}
    /\ reqs = [handling |-> 0, failing |-> 0, returning |-> 0, errors |-> 0,
               refused |-> FALSE, last |-> NoSession]

\* A request arrives and its session takes a connection out of the pool,
\* which has one to give while fewer than pool_size + max_overflow are out.
PoolCheckout ==
    /\ pc = "running" /\ Alive
    /\ checkedOut < PoolSize + MaxOverflow
    /\ checkedOut' = checkedOut + 1
    /\ reqs' = [reqs EXCEPT !.handling = @ + 1]
    /\ UNCHANGED <<runVars, settings, pc, exc, calls, telemetryVars, instrVars,
                   shut, exportVars, ticks, disposed, users>>

\* A request arrives while every connection is out: its checkout gets none
\* and fails, and the request ends without a connection.
PoolExhausted ==
    /\ pc = "running" /\ Alive
    /\ checkedOut >= PoolSize + MaxOverflow
    /\ ~reqs.refused
    /\ reqs' = [reqs EXCEPT !.refused = TRUE]
    /\ UNCHANGED <<runVars, settings, pc, exc, calls, telemetryVars, instrVars,
                   shut, exportVars, ticks, disposed, checkedOut, users>>

\* The handler of a request returns.
HandlerReturns ==
    /\ reqs.handling > 0
    /\ reqs' = [reqs EXCEPT !.handling = @ - 1, !.returning = @ + 1]
    /\ UNCHANGED <<runVars, settings, pc, exc, calls, telemetryVars, instrVars,
                   shut, exportVars, ticks, disposed, checkedOut, users>>

\* The handler of a request raises; the exception is thrown into get_db.
HandlerRaises ==
    /\ reqs.handling > 0
    /\ reqs.errors < MaxPoolErrors
    /\ reqs' = [reqs EXCEPT !.handling = @ - 1, !.failing = @ + 1,
                            !.errors = @ + 1]
    /\ UNCHANGED <<runVars, settings, pc, exc, calls, telemetryVars, instrVars,
                   shut, exportVars, ticks, disposed, checkedOut, users>>

\* get_db runs to its end for a request whose handler has ended.
PoolExit(raised) ==
    /\ IF raised THEN reqs.failing > 0 ELSE reqs.returning > 0
    /\ \E x \in {GetDbExit([NoSession EXCEPT !.raised = raised], Tel)} :
         /\ SetTel(x.tel)
         /\ checkedOut' = checkedOut - x.released
         /\ reqs' = IF raised
                    THEN [reqs EXCEPT !.failing = @ - 1, !.last = x.req]
                    ELSE [reqs EXCEPT !.returning = @ - 1, !.last = x.req]
    /\ UNCHANGED <<runVars, settings, pc, exc, calls, setupCalls, instrVars,
                   ticks, disposed, users>>

PoolNext ==
    \/ PoolCheckout
    \/ PoolExhausted
    \/ HandlerReturns
    \/ HandlerRaises
    \/ \E raised \in BOOLEAN : PoolExit(raised)

PoolSpec == PoolInit /\ [][PoolNext]_vars

\* ==================================================================== claims
Invoked(step) == \E i \in 1..Len(calls) : calls[i].step = step
Returned(step) == \E i \in 1..Len(calls) : calls[i] = Call(step, TRUE)
IsPrefix(a, b) == Len(a) <= Len(b) /\ \A i \in 1..Len(a) : a[i] = b[i]

\* The providers that are registered globally, in the order shutdown_telemetry
\* visits them.
IsRegistered(s) == registered[s] # Proxy
RegisteredInOrder ==
    LET on == SelectSeq(ShutdownOrder, IsRegistered)
    IN [i \in 1..Len(on) |-> <<on[i], registered[on[i]]>>]

\* C1: in shutdown_telemetry the shutdown of each provider is independent:
\* whichever hooks raise, the hook of every other registered provider is still
\* called, and the failure does not leave shutdown_telemetry or the lifespan.
C1_ShutdownIndependent ==
    Invoked("shutdown_telemetry") =>
        /\ \A s \in Signals :
              IsRegistered(s) => <<s, registered[s]>> \in Range(shut)
        /\ exc # "shutdown_telemetry"

ClaimedStartupOrder ==
    <<"setup_logging", "get_settings", "setup_telemetry",
      "instrument_sqlalchemy", "instrument_fastapi">>
IsStartupCall(c) == c.step \in Range(ClaimedStartupOrder)
StartupCalls ==
    LET cs == SelectSeq(calls, IsStartupCall)
    IN [i \in 1..Len(cs) |-> cs[i].step]

ActualStartupOrder ==
    <<"setup_logging", "get_settings", "instrument_fastapi",
      "setup_telemetry", "instrument_sqlalchemy">>

C3_CloseThenEveryHook ==
    /\ shut # <<>> => Returned("close_db")
    /\ Invoked("shutdown_telemetry") =>
          /\ Returned("close_db")
          /\ shut = RegisteredInOrder

\* What holds of C3 on the code: the order, and the completeness of the hook
\* calls whenever shutdown_telemetry returns.
C3_OrderWhenReturned ==
    /\ shut # <<>> => Returned("close_db") /\ disposed
    /\ IsPrefix(shut, RegisteredInOrder)
    /\ Returned("shutdown_telemetry") => shut = RegisteredInOrder

ProvidersOf(s) == {p \in created : p[1] = s}
OtlpHandlers == {i \in 1..Len(handlers) : handlers[i].kind = "otlp"}

SignalInert(s) ==
    /\ ProvidersOf(s) = {}
    /\ registered[s] = Proxy
    /\ \A n \in 1..MaxSetupCalls : enq[<<s, n>>] = 0 /\ sent[<<s, n>>] = 0
    /\ s = "log" => OtlpHandlers = {}
    /\ s = "metric" => ~sysMetrics

SignalSetUp(s) ==
    /\ ProvidersOf(s) # {}
    /\ registered[s] # Proxy
    /\ s = "log" => OtlpHandlers # {}
    /\ s = "metric" => sysMetrics

\* C4: for every combination of the flags, a signal whose flag is false has
\* no provider constructed or registered, no exporter, no bridging handler
\* (logging), no system-metrics instrumentor (metrics), and nothing of its kind
\* is ever handed to an exporter; a signal whose flag is true is set up
\* whatever the other flags are.
C4_DisabledSignalInert ==
    /\ ~settings.built => \A s \in Signals : SignalInert(s)
    /\ settings.built =>
          \A s \in Signals :
              /\ ~FlagOn(settings, s) => SignalInert(s)
              /\ FlagOn(settings, s) /\ Returned("setup_telemetry") =>
                    SignalSetUp(s)

C4_Witness ==
    /\ Lifecycle = "Stopped"
    /\ \E r \in 1..MaxReqs : reqs[r].pc = "done"
    /\ \E s, t \in Signals :
          /\ ~FlagOn(settings, s) /\ FlagOn(settings, t)
          /\ sent[<<t, 1>>] > 0

SetupReturns ==
    Cardinality({i \in 1..Len(calls) : calls[i] = Call("setup_telemetry", TRUE)})
ActivePipelines(s) == {p \in ProvidersOf(s) : p \notin Range(shut)}

\* C5: two calls of setup_telemetry leave exactly one active pipeline per
\* enabled signal: no provider (exporter, processor) of the first call is
\* still alive beside the second call's, and the root logger holds one
\* bridging handler, so that a record is exported once.
C5_SecondCallReplaces ==
    SetupReturns = 2 =>
        \A s \in Signals :
            FlagOn(settings, s) =>
                /\ Cardinality(ActivePipelines(s)) = 1
                /\ s = "log" => Cardinality(OtlpHandlers) = 1

AllowedMoves ==
    {<<"Uninitialized", "Starting">>, <<"Starting", "Running">>,
     <<"Running", "Stopping">>, <<"Stopping", "Stopped">>}

LifecycleMove ==
    /\ \/ LifecycleOf(pc') = LifecycleOf(pc)
       \/ <<LifecycleOf(pc), LifecycleOf(pc')>> \in AllowedMoves
    /\ (registered' # registered \/ created' # created) =>
          LifecycleOf(pc) = "Starting" /\ LifecycleOf(pc') = "Starting"

\* C6: the lifecycle only moves Uninitialized -> Starting -> Running ->
\* Stopping -> Stopped, one state at a time and never back, nothing follows
\* Stopped, and the global providers change only while Starting.
C6_LifecycleOrder == [][LifecycleMove]_vars

C6_Witness ==
    /\ Lifecycle = "Stopped"
    /\ \E s \in Signals : IsRegistered(s)

StartupSteps ==
    {"import_database", "setup_logging", "get_settings", "instrument_fastapi",
     "setup_telemetry", "instrument_sqlalchemy"}

\* C7: if a startup step raises, startup is aborted: the exception leaves the
\* main flow, no step runs after it, no step is run twice, the lifecycle stays
\* short of Running and no request is handled.
C7_StartupFailureAborts ==
    /\ \A i \in 1..Len(calls) :
          (calls[i].step \in StartupSteps /\ ~calls[i].ok) =>
              /\ i = Len(calls)
              /\ exc = calls[i].step
              /\ Lifecycle = "Starting"
              /\ \A r \in 1..MaxReqs : reqs[r].pc = "idle"
    /\ \A i, j \in 1..Len(calls) :
          (i # j /\ calls[i].step \in StartupSteps) =>
              calls[i].step # calls[j].step

C7_Witness ==
    /\ exc = "setup_telemetry"
    /\ created # {}

\* C8: once the stop signal has arrived, the lifecycle eventually reaches
\* Stopped, whether or not the collector is reachable.
C8_StopLeadsToStopped ==
    (Lifecycle = "Stopping") ~> (Lifecycle = "Stopped")

\* What holds of C8 on the code: the shutdown block ends, in Stopped or by
\* the exception of a shutdown hook, with the collector reachable or not.
C8_StopEnds ==
    (Lifecycle = "Stopping")
        ~> (Lifecycle = "Stopped" \/ exc = "shutdown_telemetry")

\* C9: with the collector unreachable for the whole run the answer of every
\* create-user request is what the store alone decides: 201 and the user
\* stored for an email no user holds, 409 for a held one; no export failure
\* reaches a request.
C9_CollectorInvisible ==
    \A r \in 1..MaxReqs :
        reqs[r].pc = "done" =>
            /\ (reqs[r].poolOk /\ reqs[r].found) => reqs[r].status = 409
            /\ (reqs[r].poolOk /\ ~reqs[r].found /\ ~reqs[r].clash) =>
                  /\ reqs[r].status = 201
                  /\ HeldBy(users, reqs[r].email) # {}
            /\ reqs[r].status # 201 =>
                  reqs[r].found \/ reqs[r].clash \/ ~reqs[r].poolOk

C9_Witness ==
    /\ ~collectorUp
    /\ Lifecycle = "Running"
    /\ \E r \in 1..MaxReqs : reqs[r].pc = "done" /\ reqs[r].status = 201
    /\ \E p \in created : sent[p] > 0

InFlight(r) == reqs[r].pc \in {"check", "commit"}

\* C10: when the stop signal arrives while a request is in flight, the
\* request ends (normally, or with an error of the disposed pool) and the
\* shutdown still reaches Stopped.
C10_StopWithRequestInFlight ==
    (Lifecycle = "Stopping" /\ \E r \in 1..MaxReqs : InFlight(r))
        ~> (Lifecycle = "Stopped" /\ \A r \in 1..MaxReqs : ~InFlight(r))

\* What holds of C10 on the code: the request in flight ends, and the
\* shutdown block ends as in C8, neither waiting for the other.
C10_BothEnd ==
    (Lifecycle = "Stopping" /\ \E r \in 1..MaxReqs : InFlight(r))
        ~> (/\ Lifecycle = "Stopped" \/ exc = "shutdown_telemetry"
            /\ \A r \in 1..MaxReqs : ~InFlight(r))

\* C12: get_settings returns a process-wide singleton: Settings is constructed
\* once, by the first call; every call returns that object, whoever calls and
\* whatever the environment has become since.
C12_SettingsSingleton ==
    \A i \in 1..Len(calls) :
        /\ calls[i].got = calls[1].got
        /\ calls[i].got = settings
        /\ calls[i].got.by = calls[1].step

C12_Witness ==
    /\ Len(calls) = MaxGets
    /\ \E i \in 1..Len(calls) : calls[i].step # calls[1].step
    /\ \E s \in Signals : FlagOn(settings, s) # FlagOn(env, s)

StartupDone(p) == LifecycleOf(p) \in {"Running", "Stopping", "Stopped"}
BridgeCount == Cardinality(OtlpHandlers)

\* What one step leaves on the root logger, and where the records logged by
\* a step taken in Running have gone.
HandlersStep ==
    /\ StartupDone(pc') =>
          /\ ConsoleCount(handlers') = 1
          /\ BridgeCount' = IF settings'.log THEN 1 ELSE 0
    /\ (Lifecycle = "Running" /\ emitted' # emitted) =>
          /\ console' - console = emitted' - emitted
          /\ settings.log =>
                \E n \in 1..MaxSetupCalls :
                    /\ OtlpHandler(n) \in Range(handlers)
                    /\ enq'[<<"log", n>>] - enq[<<"log", n>>]
                          = emitted' - emitted

\* C13: once startup has completed the root logger has the console handler,
\* whatever the flags are, and the bridging handler exactly if logging
\* telemetry is enabled; with it enabled, every record logged in Running
\* reaches the console and the telemetry log pipeline.
C13_ConsoleAndBridge == [][HandlersStep]_vars

C13_Witness ==
    /\ Lifecycle = "Running"
    /\ settings.log /\ ~settings.trace
    /\ \E r \in 1..MaxReqs : reqs[r].pc = "done" /\ reqs[r].status = 201
    /\ enq[<<"log", 1>>] > 0 /\ console > 0

LastCall == calls[Len(calls)]

\* C14: setup_logging is idempotent: after a call of it, however its calls
\* are interleaved with those of setup_telemetry, the root logger holds one
\* console handler and, exactly if logging telemetry is enabled, the bridging
\* handler, so that every record reaches both sinks.
C14_SetupLoggingIdempotent ==
    (calls # <<>> /\ LastCall = Call("setup_logging", TRUE)
        /\ SetupReturns >= 1) =>
        /\ ConsoleCount(handlers) = 1
        /\ BridgeCount = IF settings.log THEN 1 ELSE 0

\* What holds of C14 on the code: setup_logging leaves the console handler
\* alone on the root logger, whatever was attached before.
C14_ConsoleOnly ==
    (calls # <<>> /\ LastCall = Call("setup_logging", TRUE)) =>
        handlers = <<ConsoleHandler>>

RepoCall == reqs[1]
UpdatedExisting ==
    /\ RepoCall.pc = "done" /\ RepoCall.op = "update"
    /\ ById(RepoCall.before, RepoCall.id) # {}

C18_NotFoundAndDelete ==
    RepoCall.pc = "done" =>
        LET known == ById(RepoCall.before, RepoCall.id) # {}
        IN /\ ~known =>
                 /\ RepoCall.result =
                       (IF RepoCall.op = "update" THEN "none" ELSE "false")
                 /\ RepoCall.commits = 0 /\ RepoCall.deletes = 0
                 /\ users = RepoCall.before
           /\ (known /\ RepoCall.op = "delete") =>
                 /\ RepoCall.result = "true"
                 /\ users = RepoCall.before \ ById(RepoCall.before, RepoCall.id)
                 /\ Cardinality(users) = Cardinality(RepoCall.before) - 1
                 /\ RepoCall.commits = 1 /\ RepoCall.deletes = 1

C18_Witness ==
    /\ RepoCall.pc = "done" /\ RepoCall.op = "delete"
    /\ RepoCall.result = "true"
    /\ users # {}
    /\ \E i \in 1..Len(calls) : calls[i].step = "update"

Finished(r) == reqs[r].pc = "done"

\* C11: with the three signals enabled every request leaves exactly one root
\* span, at least one child span per data-access call it made, and at least
\* one log record carrying its trace identifiers; for every route, the
\* read-only ones at the default log level included.
C11_RequestTelemetry ==
    \A r \in 1..MaxApiReqs :
        Finished(r) =>
            /\ reqs[r].root = 1
            /\ reqs[r].child >= reqs[r].queries
            /\ reqs[r].logs >= 1

\* What holds of C11 on the code: the spans, and a log record for every
\* request but a successful read at the default level, whose only record is
\* logged at debug.
C11_SpansAndLoggedRoutes ==
    \A r \in 1..MaxApiReqs :
        Finished(r) =>
            /\ reqs[r].root = 1
            /\ reqs[r].queries >= 1
            /\ reqs[r].child >= reqs[r].queries
            /\ reqs[r].logs = 0 <=>
                  /\ settings.level = "info"
                  /\ reqs[r].kind \in {"get", "list"}
                  /\ reqs[r].status = 200

\* The step decides the answer of request r.
Decides(r) ==
    /\ reqs[r].pc \notin {"idle", "done"}
    /\ reqs[r].status = 0
    /\ reqs'[r].status # 0

CreateDecision ==
    \A r \in 1..MaxApiReqs :
        (Decides(r) /\ reqs[r].kind = "create") =>
            IF HeldBy(users, reqs[r].data.email) # {}
            THEN reqs'[r].status = 409 /\ users' = users
            ELSE /\ reqs'[r].status = 201
                 /\ users \subseteq users'
                 /\ Cardinality(users') = Cardinality(users) + 1
                 /\ Cardinality(HeldBy(users', reqs[r].data.email)) = 1

\* C15: a create-user request whose email a stored user holds is answered 409
\* and adds no user, also when the email was stored by another request
\* between its get_by_email check and its commit; one whose email no user
\* holds is answered 201 and adds exactly one user.
C15_DuplicateAnswered409 == [][CreateDecision]_vars

\* What holds of C15 on the code: a holder seen by the check gives 409, a
\* holder met by the commit only gives 500 (the IntegrityError of the unique
\* index); no user is added in either case.
CreateDecisionOnCode ==
    \A r \in 1..MaxApiReqs :
        (Decides(r) /\ reqs[r].kind = "create") =>
            IF HeldBy(users, reqs[r].data.email) # {}
            THEN /\ users' = users
                 /\ reqs'[r].status =
                       IF reqs[r].pc = "email_check" THEN 409 ELSE 500
            ELSE /\ reqs'[r].status = 201
                 /\ Cardinality(users') = Cardinality(users) + 1

C15_DuplicateNeverStored == [][CreateDecisionOnCode]_vars

UpdateDecision ==
    \A r \in 1..MaxApiReqs :
        (Decides(r) /\ reqs[r].kind = "update") =>
            LET q == reqs[r]
                conflict ==
                    /\ Truthy(q.data.email)
                    /\ \E u \in users : u.email = q.data.email /\ u.id # q.id
                known == ById(users, q.id) # {}
            IN /\ reqs'[r].status =
                     IF conflict THEN 409 ELSE IF ~known THEN 404 ELSE 200
               /\ reqs'[r].status \in {409, 404} => users' = users
               /\ reqs'[r].status = 200 =>
                     \A f \in Supplied(q.data) :
                         Load(users', q.id)[f] = q.data[f]

\* C16: an update request is answered 409 exactly when it supplies an email
\* held by a stored user other than the target, 404 when there is no such
\* conflict and the id does not exist, and otherwise 200 with the updated
\* user; a 409 or 404 answer leaves the store unchanged.
C16_UpdateStatuses == [][UpdateDecision]_vars

Unfinished == reqs.handling + reqs.failing + reqs.returning

\* What one step does to the sessions: each request that has not finished
\* holds one connection and no finished one does; a connection goes back
\* exactly in the step that finishes a request, after a rollback if the
\* handler raised, without one if it returned.
SessionStep ==
    /\ checkedOut' = Unfinished'
    /\ checkedOut' <= PoolSize + MaxOverflow
    /\ Unfinished' = 0 => checkedOut' = 0
    /\ checkedOut' < checkedOut <=> Unfinished' < Unfinished
    /\ reqs'.failing < reqs.failing =>
          /\ reqs'.last = [raised |-> TRUE, rolled |-> TRUE, closed |-> TRUE]
          /\ emitted' = emitted + 1
          /\ checkedOut' = checkedOut - 1
    /\ reqs'.returning < reqs.returning =>
          /\ reqs'.last = [raised |-> FALSE, rolled |-> FALSE, closed |-> TRUE]
          /\ checkedOut' = checkedOut - 1

\* C19: the session get_db checks out for a request is closed exactly when
\* the request finishes, on normal completion and, after a rollback and with
\* the exception re-raised, on an exception of the handler; when every
\* request has finished no session is checked out, and at no time are more
\* than pool_size + max_overflow = 30 checked out.
C19_SessionsReleased == [][SessionStep]_vars

C19_Witness ==
    /\ checkedOut = PoolSize + MaxOverflow
    /\ reqs.refused
    /\ reqs.failing > 0 /\ reqs.returning > 0
    /\ reqs.last.rolled

Accepted(r) == reqs[r].pc = "idle" /\ reqs'[r].pc # "idle"
SpanProduced ==
    \E p \in Providers : p[1] = "trace" /\ enq'[p] > enq[p]
ProvidersReady ==
    /\ Returned("setup_telemetry")
    /\ \A s \in Signals : FlagOn(settings, s) => IsRegistered(s)

ServedStep ==
    /\ \A r \in 1..MaxReqs :
          Accepted(r) => Lifecycle = "Running" /\ ProvidersReady
    /\ SpanProduced =>
          /\ ProvidersReady /\ httpInstr
          /\ \E r \in 1..MaxReqs : reqs[r].pc # "idle" /\ reqs'[r].pc = "done"

Ended(r, st) == reqs[r].pc = "done" /\ reqs[r].status = st
\* Request r was a create of email e, or an update that supplied email e.
Wrote(r, kind, e) ==
    reqs[r].pc # "idle" /\ reqs[r].kind = kind /\ reqs[r].data.email = e

\* C21: in every reachable state of the store no two users have the same
\* email (and no two the same id), for any interleaving of concurrent create
\* and update requests, including two creates of the same email that both
\* pass the get_by_email check before either commits, and an update that
\* changes a user's email to one being created concurrently.
C21_EmailsUnique ==
    \A u, v \in users : (u.email = v.email \/ u.id = v.id) => u = v

\* An update took the email a concurrent create had already checked for: the
\* update is answered 200 and its row holds the email, the create passed its
\* check and its commit was refused.
C21_Witness ==
    \E r, q \in DOMAIN reqs, e \in Emails :
        /\ Wrote(r, "update", e) /\ Ended(r, 200)
        /\ Wrote(q, "create", e) /\ Ended(q, 500)
        /\ reqs[r].seen.email # e
        /\ HeldBy(users, e) = ById(users, reqs[r].id)
        /\ HeldBy(users, e) # {}

\* Two creates of the same email both passed the check before either
\* commit: one is answered 201, the other's commit is refused.
C21_TwoCreates ==
    \E r, q \in DOMAIN reqs, e \in Emails :
        /\ Wrote(r, "create", e) /\ Ended(r, 201)
        /\ Wrote(q, "create", e) /\ Ended(q, 500)
        /\ Cardinality(HeldBy(users, e)) = 1

\* A step of the startup has raised.
StartupFailed ==
    \E i \in 1..Len(calls) : calls[i].step \in StartupSteps /\ ~calls[i].ok
ShutdownSteps == {"close_db", "shutdown_telemetry"}

\* C22: if startup fails, also after some providers were registered (tracing
\* registered, then the metric exporter construction raises), the lifespan
\* runs none of its shutdown steps: neither close_db nor shutdown_telemetry
\* is called, the engine is not disposed, and no registered provider is shut
\* down or flushed by a shutdown hook.
C22_FailedStartupSkipsShutdown ==
    StartupFailed =>
        /\ Lifecycle = "Starting"
        /\ \A i \in 1..Len(calls) : calls[i].step \notin ShutdownSteps
        /\ ~disposed
        /\ shut = <<>>

\* setup_telemetry raised in its metrics block, after the tracer provider
\* was registered.
C22_Witness ==
    /\ exc = "setup_telemetry"
    /\ IsRegistered("trace")
    /\ ~IsRegistered("metric") /\ ~IsRegistered("log")
    /\ settings.metric
    /\ <<"trace", registered["trace"]>> \in created

\* The fields request q supplies as null, and those it omits.
NullFields(q) == {f \in Fields : q.data[f] = Null}
OmittedFields(q) == {f \in Fields : q.data[f] = Unset}

\* The step is the commit of update request r.
UpdateCommits(r) ==
    /\ reqs[r].pc = "commit" /\ reqs[r].kind = "update"
    /\ reqs'[r].pc = "exit"

NullUpdateStep ==
    \A r \in DOMAIN reqs :
        /\ UpdateCommits(r) =>
              LET q == reqs[r]
                  old == Load(users, q.id)
                  new == Load(users', q.id)
              IN IF NullFields(q) \cap NotNullFields # {}
                 THEN reqs'[r].status = 500 /\ users' = users
                 ELSE IF reqs'[r].status = 200
                 THEN /\ \A f \in NullFields(q) : new[f] = Null
                      /\ \A f \in OmittedFields(q) : new[f] = old[f]
                      /\ new.id = old.id
                      /\ users' \ {new} = users \ {old}
                 ELSE reqs'[r].status = 500 /\ users' = users
        /\ (reqs'[r].pc # "idle" /\ reqs'[r].kind = "update"
               /\ reqs'[r].data.email = Null) =>
              /\ reqs'[r].pc # "email_check"
              /\ reqs'[r].status # 409
              /\ reqs'[r].queries <= 2

\* C23: in an update, a field explicitly supplied as null is written as null
\* to the user (a null bio is stored as null; a null name or email is set on
\* the user too, so that the store refuses the commit), while an omitted
\* field is left unchanged; an explicitly null email skips the route's
\* duplicate-email check, so no 409 is returned for it.
C23_NullIsApplied == [][NullUpdateStep]_vars

\* An update of user 2 with {"bio": null} was answered 200: the stored bio is
\* null, name and email are as before.
C23_Witness ==
    \E r \in DOMAIN reqs :
        /\ Ended(r, 200)
        /\ Wrote(r, "update", Unset)
        /\ reqs[r].data.bio = Null /\ reqs[r].data.name = Unset
        /\ reqs[r].seen = User2
        /\ Load(users, 2) = [User2 EXCEPT !.bio = Null, !.updated_at = 1]

\* An update with {"email": null} ran no get_by_email and ended without a
\* 409: its commit was refused.
C23_NullEmailSkipsCheck ==
    \E r \in DOMAIN reqs :
        /\ Ended(r, 500)
        /\ Wrote(r, "update", Null)
        /\ reqs[r].queries = 2
====
